---- MODULE Spec2Model ----
(***************************************************************************)
(* Model of the two contracts of the repository:                           *)
(*   src/nft/src/lib.rs   the NFT (MPC-721 style) token contract           *)
(*   src/user/src/lib.rs  the user / wallet / product directory contract   *)
(* Every action of a contract takes the persisted state by value and       *)
(* returns the new state (and the notifications it emits); a panic aborts  *)
(* the invocation, nothing is returned and the persisted state stays.      *)
(*                                                                         *)
(* nft, dir  the persisted state of the two contracts                      *)
(* last      the invocation the runtime has just executed: the contract,   *)
(*           the action, ctx.sender, the arguments, the state the action   *)
(*           was given (pre), its outcome (err) and the notifications it   *)
(*           returned (ev); Idle between two invocations                   *)
(***************************************************************************)
EXTENDS Integers, FiniteSets, Sequences, TLC

VARIABLES nft, dir, last, inflight

vars == <<nft, dir, last, inflight>>

(* ------------------------------ bounds --------------------------------- *)

\* cap on total_count of the NFT contract (tokens ever minted)
MaxTokens == 2
\* cap on total_count of the directory contract (users ever registered)
MaxUsers == 2
\* cap on the number of operator grants held in operator_approvals
MaxGrants == 1
\* cap on the number of notifications emitted and not yet delivered
MaxInflight == 2

(* --------------------------- value domains ----------------------------- *)

\* account identities that send transactions
Address == {"A", "B", "C"}
\* address of the deployed NFT contract (ctx.contract_address)
NftAddr == "N"
\* address of the deployed directory contract (user_contract_address)
DirAddr == "D"
\* Option::None
None == "None"
\* identities used as the `approved` argument of approve: one account that
\* is not the deployer, so that a token can have a delegate who is neither
\* its owner nor the contract owner
Delegates == {"C"}
OptDelegates == Delegates \cup {None}

\* token ids used as arguments: the mintable ids and one id never minted
TokenIds == 1..(MaxTokens + 1)
\* batch sizes used as arguments
Counts == 0..MaxTokens
\* metadata strings used as arguments
Statuses == {"s1"}
MpgTimes == {"t0"}
ExpTimes == {"t9"}
\* product_id label given to initialize of the NFT contract
ProductLabel == "P"
\* external user ids given to the directory mint
ExternalIds == {"u1", "u2"}
\* product ids used as arguments of the directory
ProductIds == 0..1

\* error kinds: the panics of the code, named as in the error taxonomy
OK == "none"
NotFound == "NotFound"
Unauthorized == "Unauthorized"
OwnershipMismatch == "OwnershipMismatch"
InvalidSelfReference == "InvalidSelfReference"
ExternalCallFailed == "ExternalCallFailed"

(* ------------------- SortedVecMap / SortedVec helpers ------------------ *)

\* SortedVecMap::insert: binds k to v, replacing an earlier binding
MapInsert(m, k, v) == [x \in (DOMAIN m) \cup {k} |-> IF x = k THEN v ELSE m[x]]
\* SortedVecMap::remove: drops the binding of k if present
MapRemove(m, k) == [x \in (DOMAIN m) \ {k} |-> m[x]]
\* SortedVecMap::new
EmptyMap == [x \in {} |-> None]

\* result of a panic: the invocation aborts where it stands, nothing is
\* returned and nothing is emitted; state is what stays persisted
Fail(state, e) == [err |-> e, st |-> state, ev |-> <<>>]
\* result of an invocation that returned (state, events)
Done(state, events) == [err |-> OK, st |-> state, ev |-> events]

(* ============================ NFT contract ============================= *)

shortname_transfer_product == 2
shortname_mint_product == 3

exists(self, token_id) == token_id \in DOMAIN self.owners

\* defined for existing tokens; the callers model the panic on a missing one
owner_of(self, token_id) == self.owners[token_id]

get_approved(self, token_id) ==
    IF token_id \in DOMAIN self.token_approvals
    THEN self.token_approvals[token_id] ELSE None

is_approved_for_all(self, owner, operator) ==
    [owner |-> owner, operator |-> operator] \in self.operator_approvals

is_approved_or_owner(self, spender, token_id) ==
    LET owner == owner_of(self, token_id) IN
       \/ spender = owner
       \/ get_approved(self, token_id) = spender
       \/ is_approved_for_all(self, owner, spender)

\* _approve keeping the new approval as the only one of the contract
_approve_replaces_all(self, approved, token_id) ==
    IF approved # None
    THEN [self EXCEPT !.token_approvals = MapInsert(EmptyMap, token_id, approved)]
    ELSE [self EXCEPT !.token_approvals = MapRemove(@, token_id)]

_approve(self, approved, token_id) ==
    IF approved # None
    THEN [self EXCEPT !.token_approvals = MapInsert(@, token_id, approved)]
    ELSE [self EXCEPT !.token_approvals = MapRemove(@, token_id)]

\* _transfer taking the operators of from along to the new owner
_transfer_moves_grants(self, from, to, token_id) ==
    IF ~exists(self, token_id) THEN Fail(self, NotFound)
    ELSE IF owner_of(self, token_id) # from THEN Fail(self, OwnershipMismatch)
    ELSE LET cleared == _approve(self, None, token_id)
             moved == { IF g.owner = from
                        THEN [owner |-> to, operator |-> g.operator]
                        ELSE g : g \in cleared.operator_approvals }
         IN  Done([cleared EXCEPT !.owners = MapInsert(@, token_id, to),
                                  !.operator_approvals = moved], <<>>)

\* _transfer without the comparison of from with the owner
_transfer_ignores_from(self, from, to, token_id) ==
    IF ~exists(self, token_id) THEN Fail(self, NotFound)
    ELSE LET cleared == _approve(self, None, token_id) IN
         Done([cleared EXCEPT !.owners = MapInsert(@, token_id, to)], <<>>)

\* _transfer clearing the approval before it checks the owner
_transfer_clears_first(self, from, to, token_id) ==
    IF ~exists(self, token_id) THEN Fail(self, NotFound)
    ELSE LET cleared == _approve(self, None, token_id) IN
         IF owner_of(self, token_id) # from THEN Fail(cleared, OwnershipMismatch)
         ELSE Done([cleared EXCEPT !.owners = MapInsert(@, token_id, to)], <<>>)

\* _transfer without the clearing of the approval
_transfer_keeps_approval(self, from, to, token_id) ==
    IF ~exists(self, token_id) THEN Fail(self, NotFound)
    ELSE IF owner_of(self, token_id) # from THEN Fail(self, OwnershipMismatch)
    ELSE Done([self EXCEPT !.owners = MapInsert(@, token_id, to)], <<>>)

_transfer(self, from, to, token_id) ==
    IF ~exists(self, token_id) THEN Fail(self, NotFound)
    ELSE IF owner_of(self, token_id) # from THEN Fail(self, OwnershipMismatch)
    ELSE LET cleared == _approve(self, None, token_id) IN
         Done([cleared EXCEPT !.owners = MapInsert(@, token_id, to)], <<>>)

nft_initialize(ctx, name, symbol, product_id, user_contract_address, uri_template) ==
    [ name |-> name,
      symbol |-> symbol,
      product_id |-> product_id,
      user_contract_address |-> user_contract_address,
      owners |-> EmptyMap,
      token_approvals |-> EmptyMap,
      operator_approvals |-> {},
      uri_template |-> uri_template,
      token_uri_details |-> EmptyMap,
      contract_owner |-> ctx.sender,
      total_count |-> 0 ]

\* approve handing the token to the address it approves
approve_hands_over(ctx, state, approved, token_id) ==
    IF ~exists(state, token_id) THEN Fail(state, NotFound)
    ELSE LET owner == owner_of(state, token_id) IN
         IF ctx.sender # owner /\ ~is_approved_for_all(state, owner, ctx.sender)
         THEN Fail(state, Unauthorized)
         ELSE IF approved = None THEN Done(_approve(state, approved, token_id), <<>>)
         ELSE Done([_approve(state, approved, token_id) EXCEPT
                       !.owners = MapInsert(@, token_id, approved)], <<>>)

\* approve that does not look for the token before it approves
approve_any_token(ctx, state, approved, token_id) ==
    IF ~exists(state, token_id) THEN Done(_approve(state, approved, token_id), <<>>)
    ELSE LET owner == owner_of(state, token_id) IN
         IF ctx.sender # owner /\ ~is_approved_for_all(state, owner, ctx.sender)
         THEN Fail(state, Unauthorized)
         ELSE Done(_approve(state, approved, token_id), <<>>)

\* approve gated by is_approved_or_owner: the approved delegate may approve
approve_spender_gate(ctx, state, approved, token_id) ==
    IF ~exists(state, token_id) THEN Fail(state, NotFound)
    ELSE IF ~is_approved_or_owner(state, ctx.sender, token_id)
    THEN Fail(state, Unauthorized)
    ELSE Done(_approve(state, approved, token_id), <<>>)

approve(ctx, state, approved, token_id) ==
    IF ~exists(state, token_id) THEN Fail(state, NotFound)
    ELSE LET owner == owner_of(state, token_id) IN
         IF ctx.sender # owner /\ ~is_approved_for_all(state, owner, ctx.sender)
         THEN Fail(state, Unauthorized)
         ELSE Done(_approve(state, approved, token_id), <<>>)

\* set_approval_for_all taking, with a revoked grant, the approved addresses
\* of the tokens of the caller
set_approval_for_all_revokes_approvals(ctx, state, operator, approved) ==
    IF operator = ctx.sender THEN Fail(state, InvalidSelfReference)
    ELSE LET operator_approval == [owner |-> ctx.sender, operator |-> operator] IN
         IF approved
         THEN Done([state EXCEPT !.operator_approvals = @ \cup {operator_approval}], <<>>)
         ELSE LET kept == { t \in DOMAIN state.token_approvals :
                               owner_of(state, t) # ctx.sender }
              IN  Done([state EXCEPT
                          !.operator_approvals = @ \ {operator_approval},
                          !.token_approvals = [t \in kept |-> state.token_approvals[t]]],
                       <<>>)

\* set_approval_for_all without the check of operator against the caller
set_approval_for_all_self(ctx, state, operator, approved) ==
    LET operator_approval == [owner |-> ctx.sender, operator |-> operator] IN
    IF approved
    THEN Done([state EXCEPT !.operator_approvals = @ \cup {operator_approval}], <<>>)
    ELSE Done([state EXCEPT !.operator_approvals = @ \ {operator_approval}], <<>>)

\* set_approval_for_all taking a grant that is granted again for a toggle
set_approval_for_all_toggles(ctx, state, operator, approved) ==
    IF operator = ctx.sender THEN Fail(state, InvalidSelfReference)
    ELSE LET operator_approval == [owner |-> ctx.sender, operator |-> operator] IN
         IF approved /\ operator_approval \notin state.operator_approvals
         THEN Done([state EXCEPT !.operator_approvals = @ \cup {operator_approval}], <<>>)
         ELSE Done([state EXCEPT !.operator_approvals = @ \ {operator_approval}], <<>>)

set_approval_for_all(ctx, state, operator, approved) ==
    IF operator = ctx.sender THEN Fail(state, InvalidSelfReference)
    ELSE LET operator_approval == [owner |-> ctx.sender, operator |-> operator] IN
         IF approved
         THEN Done([state EXCEPT !.operator_approvals = @ \cup {operator_approval}], <<>>)
         ELSE Done([state EXCEPT !.operator_approvals = @ \ {operator_approval}], <<>>)

\* transfer_from notifying the directory with to and from exchanged
transfer_from_swapped_args(ctx, state, from, to, token_id) ==
    IF state.contract_owner # ctx.sender THEN Fail(state, Unauthorized)
    ELSE LET r == _transfer(state, from, to, token_id) IN
         IF r.err # OK THEN r
         ELSE Done(r.st,
                   << [ target |-> r.st.user_contract_address,
                        shortname |-> shortname_transfer_product,
                        args |-> <<to, from, ctx.contract_address, token_id,
                                   r.st.product_id>> ] >>)

\* transfer_from gated by is_approved_or_owner instead of contract_owner
transfer_from_spender_gate(ctx, state, from, to, token_id) ==
    IF ~exists(state, token_id) THEN Fail(state, NotFound)
    ELSE IF ~is_approved_or_owner(state, ctx.sender, token_id)
    THEN Fail(state, Unauthorized)
    ELSE LET r == _transfer(state, from, to, token_id) IN
         IF r.err # OK THEN r
         ELSE Done(r.st,
                   << [ target |-> r.st.user_contract_address,
                        shortname |-> shortname_transfer_product,
                        args |-> <<from, to, ctx.contract_address, token_id,
                                   r.st.product_id>> ] >>)

transfer_from(ctx, state, from, to, token_id) ==
    IF state.contract_owner # ctx.sender THEN Fail(state, Unauthorized)
    ELSE LET r == _transfer(state, from, to, token_id) IN
         IF r.err # OK THEN r
         ELSE Done(r.st,
                   << [ target |-> r.st.user_contract_address,
                        shortname |-> shortname_transfer_product,
                        args |-> <<from, to, ctx.contract_address, token_id,
                                   r.st.product_id>> ] >>)

\* the loop of batch_mint binding the token before it counts it
RECURSIVE batch_mint_loop_binds_first(_, _, _, _)
batch_mint_loop_binds_first(state, to, token_uri, i) ==
    IF i = 0 THEN state
    ELSE batch_mint_loop_binds_first(
            [state EXCEPT
               !.owners = MapInsert(@, state.total_count, to),
               !.token_uri_details = MapInsert(@, state.total_count, token_uri),
               !.total_count = @ + 1],
            to, token_uri, i - 1)

\* the loop of batch_mint writing one bundle shared by all the tokens
RECURSIVE batch_mint_loop_shared_metadata(_, _, _, _)
batch_mint_loop_shared_metadata(state, to, token_uri, i) ==
    IF i = 0 THEN state
    ELSE LET counted == [state EXCEPT !.total_count = @ + 1] IN
         batch_mint_loop_shared_metadata(
            [counted EXCEPT
               !.owners = MapInsert(@, counted.total_count, to),
               !.token_uri_details = [t \in 1..counted.total_count |-> token_uri]],
            to, token_uri, i - 1)

\* the loop of batch_mint counting a token twice
RECURSIVE batch_mint_loop_counts_twice(_, _, _, _)
batch_mint_loop_counts_twice(state, to, token_uri, i) ==
    IF i = 0 THEN state
    ELSE LET counted == [state EXCEPT !.total_count = @ + 2] IN
         batch_mint_loop_counts_twice(
            [counted EXCEPT
               !.owners = MapInsert(@, counted.total_count, to),
               !.token_uri_details = MapInsert(@, counted.total_count, token_uri)],
            to, token_uri, i - 1)

\* the loop of batch_mint: i tokens still to mint
RECURSIVE batch_mint_loop(_, _, _, _)
batch_mint_loop(state, to, token_uri, i) ==
    IF i = 0 THEN state
    ELSE LET counted == [state EXCEPT !.total_count = @ + 1] IN
         batch_mint_loop(
            [counted EXCEPT
               !.owners = MapInsert(@, counted.total_count, to),
               !.token_uri_details = MapInsert(@, counted.total_count, token_uri)],
            to, token_uri, i - 1)

\* batch_mint open to the operators of the contract owner
batch_mint_operator_gate(ctx, state, to, count, status, mpg_time, exp_time) ==
    IF /\ ctx.sender # state.contract_owner
       /\ ~is_approved_for_all(state, state.contract_owner, ctx.sender)
    THEN Fail(state, Unauthorized)
    ELSE LET from == state.total_count
             token_uri == [status |-> status, mpg_time |-> mpg_time,
                           exp_time |-> exp_time]
             minted == batch_mint_loop(state, to, token_uri, count)
         IN  Done(minted,
                  << [ target |-> minted.user_contract_address,
                       shortname |-> shortname_mint_product,
                       args |-> <<to, ctx.contract_address, from, count,
                                  minted.product_id>> ] >>)

batch_mint(ctx, state, to, count, status, mpg_time, exp_time) ==
    IF ctx.sender # state.contract_owner THEN Fail(state, Unauthorized)
    ELSE LET from == state.total_count
             token_uri == [status |-> status, mpg_time |-> mpg_time,
                           exp_time |-> exp_time]
             minted == batch_mint_loop(state, to, token_uri, count)
         IN  Done(minted,
                  << [ target |-> minted.user_contract_address,
                       shortname |-> shortname_mint_product,
                       args |-> <<to, ctx.contract_address, from, count,
                                  minted.product_id>> ] >>)

mint_callback(ctx, success, state) ==
    IF ~success THEN Fail(state, ExternalCallFailed)
    ELSE Done(state, <<>>)

(* ========================= directory contract ========================== *)

user_initialize(ctx, name, symbol, uri_template) ==
    [ name |-> name,
      symbol |-> symbol,
      owners |-> EmptyMap,
      token_approvals |-> EmptyMap,
      operator_approvals |-> {},
      uri_template |-> uri_template,
      user_list |-> EmptyMap,
      contract_owner |-> ctx.sender,
      wallet_owner |-> EmptyMap,
      user_product_list |-> EmptyMap,
      total_count |-> 0 ]

\* mint binding the wallet before it counts the new user
mint_binds_before_counting(ctx, state, user_id, wallet) ==
    IF ctx.sender # state.contract_owner THEN Fail(state, Unauthorized)
    ELSE LET counted == [state EXCEPT !.total_count = @ + 1]
             token_uri == [id |-> user_id, wallet |-> wallet]
         IN  Done([counted EXCEPT
                     !.user_list = MapInsert(@, counted.total_count, token_uri),
                     !.wallet_owner = MapInsert(@, wallet, state.total_count)],
                  <<>>)

\* mint keeping the first binding of a wallet that is registered again
mint_keeps_first_binding(ctx, state, user_id, wallet) ==
    IF ctx.sender # state.contract_owner THEN Fail(state, Unauthorized)
    ELSE LET counted == [state EXCEPT !.total_count = @ + 1]
             token_uri == [id |-> user_id, wallet |-> wallet]
         IN  Done([counted EXCEPT
                     !.user_list = MapInsert(@, counted.total_count, token_uri),
                     !.wallet_owner =
                         IF wallet \in DOMAIN @ THEN @
                         ELSE MapInsert(@, wallet, counted.total_count)],
                  <<>>)

mint(ctx, state, user_id, wallet) ==
    IF ctx.sender # state.contract_owner THEN Fail(state, Unauthorized)
    ELSE LET counted == [state EXCEPT !.total_count = @ + 1]
             token_uri == [id |-> user_id, wallet |-> wallet]
         IN  Done([counted EXCEPT
                     !.user_list = MapInsert(@, counted.total_count, token_uri),
                     !.wallet_owner = MapInsert(@, wallet, counted.total_count)],
                  <<>>)

transfer_product(ctx, state, from, to, product_address, product_id) ==
    IF ctx.sender # state.contract_owner THEN Fail(state, Unauthorized)
    ELSE IF to \notin DOMAIN state.wallet_owner THEN Fail(state, NotFound)
    ELSE LET to_id == state.wallet_owner[to] IN
         IF to_id \notin DOMAIN state.user_product_list THEN Fail(state, NotFound)
         ELSE LET product_uri == [contract_address |-> product_address,
                                  id |-> product_id]
                  inserted == [state EXCEPT
                                 !.user_product_list[to_id] = @ \cup {product_uri}]
              IN  IF from \notin DOMAIN inserted.wallet_owner
                  THEN Fail(state, NotFound)
                  ELSE LET from_id == inserted.wallet_owner[from] IN
                       IF from_id \notin DOMAIN inserted.user_product_list
                       THEN Fail(state, NotFound)
                       ELSE Done([inserted EXCEPT
                                    !.user_product_list[from_id] = @ \ {product_uri}],
                                 <<>>)

\* mint_product open to every caller
mint_product_any_caller(ctx, state, to, product_address, product_id) ==
    IF to \notin DOMAIN state.wallet_owner THEN Fail(state, NotFound)
    ELSE LET to_id == state.wallet_owner[to] IN
         IF to_id \notin DOMAIN state.user_product_list THEN Fail(state, NotFound)
         ELSE LET product_uri == [contract_address |-> product_address,
                                  id |-> product_id]
              IN  Done([state EXCEPT
                          !.user_product_list[to_id] = @ \cup {product_uri}],
                       <<>>)

mint_product(ctx, state, to, product_address, product_id) ==
    IF ctx.sender # state.contract_owner THEN Fail(state, Unauthorized)
    ELSE IF to \notin DOMAIN state.wallet_owner THEN Fail(state, NotFound)
    ELSE LET to_id == state.wallet_owner[to] IN
         IF to_id \notin DOMAIN state.user_product_list THEN Fail(state, NotFound)
         ELSE LET product_uri == [contract_address |-> product_address,
                                  id |-> product_id]
              IN  Done([state EXCEPT
                          !.user_product_list[to_id] = @ \cup {product_uri}],
                       <<>>)

(* ============================ state machine ============================ *)

NftCtx(sender) == [sender |-> sender, contract_address |-> NftAddr]
DirCtx(sender) == [sender |-> sender, contract_address |-> DirAddr]

\* the account that deploys both contracts (ctx.sender of initialize)
Deployer == "A"

\* the state of the two contracts after construction
NftInit ==
    nft_initialize(NftCtx(Deployer), "name", "symbol", ProductLabel, DirAddr, "uri")
DirInit == user_initialize(DirCtx(Deployer), "name", "symbol", "uri")

\* no invocation is being reported
Idle == [contract |-> "none", op |-> "idle", sender |-> None, args |-> <<>>,
         pre |-> <<>>, err |-> OK, ev |-> <<>>]

\* The two contracts share no state: a behaviour invokes one of them and the
\* other one stays as constructed.
\* one invocation of the NFT contract with result r
NftStep(op, sender, args, r) ==
    /\ last = Idle
    /\ dir = DirInit
    /\ nft' = r.st
    /\ last' = [contract |-> "nft", op |-> op, sender |-> sender, args |-> args,
                pre |-> nft, err |-> r.err, ev |-> r.ev]
    /\ UNCHANGED <<dir, inflight>>

\* one invocation of the directory contract with result r
DirStep(op, sender, args, r) ==
    /\ last = Idle
    /\ nft = NftInit
    /\ dir' = r.st
    /\ last' = [contract |-> "user", op |-> op, sender |-> sender, args |-> args,
                pre |-> dir, err |-> r.err, ev |-> r.ev]
    /\ UNCHANGED <<nft, inflight>>

Init ==
    /\ nft = NftInit
    /\ dir = DirInit
    /\ last = Idle
    /\ inflight = <<>>

Approve ==
    \E sender \in Address, approved \in OptDelegates, token_id \in TokenIds :
        NftStep("approve", sender,
                [approved |-> approved, token_id |-> token_id],
                approve(NftCtx(sender), nft, approved, token_id))

\* set_approval_for_all by one of Senders for one of Operators; a grant
\* that would make more than MaxGrants grants is left out
SetApprovalForAllOf(Senders, Operators) ==
    \E sender \in Senders, operator \in Operators, approved \in BOOLEAN :
        LET r == set_approval_for_all(NftCtx(sender), nft, operator, approved) IN
        /\ Cardinality(r.st.operator_approvals) <= MaxGrants
        /\ NftStep("set_approval_for_all", sender,
                   [operator |-> operator, approved |-> approved], r)

SetApprovalForAll == SetApprovalForAllOf(Address, Address)

TransferFrom ==
    \E sender \in Address, from \in Address, to \in Address, token_id \in TokenIds :
        NftStep("transfer_from", sender,
                [from |-> from, to |-> to, token_id |-> token_id],
                transfer_from(NftCtx(sender), nft, from, to, token_id))

\* batch_mint with a status of Stats; a batch that would mint more than
\* MaxTokens tokens is left out
BatchMintOf(Stats) ==
    \E sender \in Address, to \in Address, count \in Counts,
       status \in Stats, mpg_time \in MpgTimes, exp_time \in ExpTimes :
        /\ nft.total_count + count <= MaxTokens
        /\ NftStep("batch_mint", sender,
                   [to |-> to, count |-> count, status |-> status,
                    mpg_time |-> mpg_time, exp_time |-> exp_time],
                   batch_mint(NftCtx(sender), nft, to, count, status, mpg_time, exp_time))

BatchMint == BatchMintOf(Statuses)

MintCallback ==
    \E success \in BOOLEAN :
        NftStep("mint_callback", NftAddr, [success |-> success],
                mint_callback(NftCtx(NftAddr), success, nft))

Mint ==
    \E sender \in Address, user_id \in ExternalIds, wallet \in Address :
        /\ dir.total_count < MaxUsers
        /\ DirStep("mint", sender, [user_id |-> user_id, wallet |-> wallet],
                   mint(DirCtx(sender), dir, user_id, wallet))

TransferProduct ==
    \E sender \in Address, from \in Address, to \in Address,
       product_id \in ProductIds :
        DirStep("transfer_product", sender,
                [from |-> from, to |-> to, product_address |-> NftAddr,
                 product_id |-> product_id],
                transfer_product(DirCtx(sender), dir, from, to, NftAddr, product_id))

MintProduct ==
    \E sender \in Address, to \in Address, product_id \in ProductIds :
        DirStep("mint_product", sender,
                [to |-> to, product_address |-> NftAddr, product_id |-> product_id],
                mint_product(DirCtx(sender), dir, to, NftAddr, product_id))

\* the runtime closes the invocation; the next one is admitted
Settle ==
    /\ last # Idle
    /\ last' = Idle
    /\ UNCHANGED <<nft, dir, inflight>>

Next ==
    \/ Approve
    \/ SetApprovalForAll
    \/ TransferFrom
    \/ BatchMint
    \/ MintCallback
    \/ Mint
    \/ TransferProduct
    \/ MintProduct
    \/ Settle

Spec == Init /\ [][Next]_vars

(* The NFT contract alone, minted with two different statuses: the          *)
(* specification for the claims about the metadata of a token. One owner    *)
(* and one operator are enough here, as no operator reads the metadata.     *)
MetaStatuses == {"s1", "s2"}

BatchMintMeta == BatchMintOf(MetaStatuses)

SetApprovalForAllMeta == SetApprovalForAllOf({"B"}, {"C"})

NextMeta ==
    \/ Approve
    \/ SetApprovalForAllMeta
    \/ TransferFrom
    \/ BatchMintMeta
    \/ MintCallback
    \/ Settle

SpecMeta == Init /\ [][NextMeta]_vars

(* The directory contract alone: the specification for the claims about    *)
(* its own state.                                                           *)
NextDir ==
    \/ Mint
    \/ TransferProduct
    \/ MintProduct
    \/ Settle

SpecDir == Init /\ [][NextDir]_vars

(* The two contracts together: a notification emitted by the NFT contract *)
(* stays in flight until the runtime delivers it to the directory, with    *)
(* the NFT contract as sender. Other invocations are handled in between.   *)

\* the invocation that a notification becomes at the directory: the action
\* of its shortname, its arguments read by position into the parameters
deliver(ev, state) ==
    IF ev.shortname = shortname_mint_product
    THEN mint_product(DirCtx(NftAddr), state, ev.args[1], ev.args[2], ev.args[3])
    ELSE transfer_product(DirCtx(NftAddr), state, ev.args[1], ev.args[2],
                          ev.args[3], ev.args[4])

\* an invocation of the NFT contract whose notifications go in flight
EmitStep(op, sender, args, r) ==
    /\ last = Idle
    /\ Len(inflight) + Len(r.ev) <= MaxInflight
    /\ nft' = r.st
    /\ inflight' = inflight \o r.ev
    /\ last' = [contract |-> "nft", op |-> op, sender |-> sender, args |-> args,
                pre |-> nft, err |-> r.err, ev |-> r.ev]
    /\ UNCHANGED dir

EmitBatchMint ==
    \E sender \in {Deployer, "B"}, to \in {"B", "C"}, count \in 1..MaxTokens,
       status \in Statuses, mpg_time \in MpgTimes, exp_time \in ExpTimes :
        /\ nft.total_count + count <= MaxTokens
        /\ EmitStep("batch_mint", sender,
                    [to |-> to, count |-> count, status |-> status,
                     mpg_time |-> mpg_time, exp_time |-> exp_time],
                    batch_mint(NftCtx(sender), nft, to, count, status, mpg_time, exp_time))

EmitTransferFrom ==
    \E sender \in {Deployer}, from \in {"B", "C"}, to \in {"B", "C"},
       token_id \in 1..MaxTokens :
        EmitStep("transfer_from", sender,
                 [from |-> from, to |-> to, token_id |-> token_id],
                 transfer_from(NftCtx(sender), nft, from, to, token_id))

\* the registration of a wallet at the directory by its contract owner
RegisterUser ==
    \E wallet \in {"C"}, user_id \in {"u1"} :
        LET r == mint(DirCtx(Deployer), dir, user_id, wallet) IN
        /\ last = Idle
        /\ dir.total_count < MaxUsers
        /\ dir' = r.st
        /\ last' = [contract |-> "user", op |-> "mint", sender |-> Deployer,
                    args |-> [user_id |-> user_id, wallet |-> wallet],
                    pre |-> dir, err |-> r.err, ev |-> r.ev]
        /\ UNCHANGED <<nft, inflight>>

\* the delivery of one notification in flight: the directory handles it, and
\* no callback of the NFT contract is registered, so whatever the outcome
\* nothing is invoked at the NFT contract
Deliver ==
    \E i \in 1..Len(inflight) :
        LET ev == inflight[i]
            r == deliver(ev, dir)
        IN  /\ last = Idle
            /\ ev.target = DirAddr
            /\ dir' = r.st
            /\ inflight' = SubSeq(inflight, 1, i - 1) \o
                           SubSeq(inflight, i + 1, Len(inflight))
            /\ last' = [contract |-> "user",
                        op |-> IF ev.shortname = shortname_mint_product
                               THEN "mint_product" ELSE "transfer_product",
                        sender |-> NftAddr, args |-> ev.args,
                        pre |-> dir, err |-> r.err, ev |-> r.ev]
            /\ UNCHANGED nft

NextComp ==
    \/ EmitBatchMint
    \/ EmitTransferFrom
    \/ RegisterUser
    \/ Deliver
    \/ Settle

SpecComp == Init /\ [][NextComp]_vars

(* ============================== claims ================================= *)

NftCall(op) == last.contract = "nft" /\ last.op = op
DirCall(op) == last.contract = "user" /\ last.op = op

(* --------------------------------- C1 ---------------------------------- *)

C2_DocCommentGate ==
    ( /\ NftCall("transfer_from")
      /\ exists(last.pre, last.args.token_id)
      /\ last.args.from = owner_of(last.pre, last.args.token_id)
      /\ is_approved_or_owner(last.pre, last.sender, last.args.token_id) )
    => /\ last.err = OK
       /\ owner_of(nft, last.args.token_id) = last.args.to

(* --------------------------------- C3 ---------------------------------- *)

\* C3: after a successful transfer_from(from, to, token) the token has no
\* approved address and its owner is to, whatever approval it had before and
\* also when from = to.
C3_TransferClearsApproval ==
    (NftCall("transfer_from") /\ last.err = OK) =>
        /\ get_approved(nft, last.args.token_id) = None
        /\ exists(nft, last.args.token_id)
        /\ owner_of(nft, last.args.token_id) = last.args.to

\* a token with an approved address was transferred to its own owner
C3_Witness ==
    /\ NftCall("transfer_from")
    /\ last.err = OK
    /\ get_approved(last.pre, last.args.token_id) # None
    /\ last.args.from = last.args.to

(* --------------------------------- C4 ---------------------------------- *)

\* C4: a successful batch_mint(to, count = N), N >= 0, increases total_count
\* by exactly N, makes exactly the ids old total_count + 1 .. old
\* total_count + N exist, none of which existed before, all owned by to, and
\* emits exactly one notification, also when N = 0.
C4_BatchMintEffect ==
    (NftCall("batch_mint") /\ last.err = OK) =>
        LET pre == last.pre
            N == last.args.count
            fresh == (pre.total_count + 1)..(pre.total_count + N)
        IN  /\ last.sender = pre.contract_owner
            /\ nft.total_count = pre.total_count + N
            /\ fresh \cap DOMAIN pre.owners = {}
            /\ DOMAIN nft.owners = DOMAIN pre.owners \cup fresh
            /\ \A t \in fresh : owner_of(nft, t) = last.args.to
            /\ Len(last.ev) = 1

\* a batch of several tokens was minted
C4_Witness ==
    /\ NftCall("batch_mint")
    /\ last.err = OK
    /\ last.args.count >= 2
    /\ Cardinality(DOMAIN nft.owners \ DOMAIN last.pre.owners) = last.args.count

(* --------------------------------- C5 ---------------------------------- *)

\* C5: the notification of a batch_mint carries the ordered arguments
\* (to, this contract, first_id, count, product label), first_id being the
\* id of the first token the batch minted.
C5_BatchMintNotifiesFirstId ==
    (NftCall("batch_mint") /\ last.err = OK /\ last.args.count >= 1) =>
        /\ Len(last.ev) = 1
        /\ last.ev[1].args =
              << last.args.to, NftAddr, last.pre.total_count + 1,
                 last.args.count, last.pre.product_id >>

(* --------------------------------- C6 ---------------------------------- *)

\* C6: approve(caller, approved, token) on a minted token succeeds iff the
\* caller is the owner of the token or an operator of that owner; otherwise
\* it fails with Unauthorized and leaves the state unchanged (so for the
\* approved delegate who is neither); on success get_approved(token) is the
\* approved argument, None clearing it.
C6_ApproveGate ==
    (NftCall("approve") /\ exists(last.pre, last.args.token_id)) =>
        LET pre == last.pre
            t == last.args.token_id
            owner == owner_of(pre, t)
            allowed == \/ last.sender = owner
                       \/ is_approved_for_all(pre, owner, last.sender)
        IN  /\ (last.err = OK) <=> allowed
            /\ ~allowed => (last.err = Unauthorized /\ nft = pre)
            /\ allowed => get_approved(nft, t) = last.args.approved

\* the approved delegate of a token, neither its owner nor an operator of
\* the owner, tried to change the approval and was refused
C6_Witness ==
    /\ NftCall("approve")
    /\ exists(last.pre, last.args.token_id)
    /\ get_approved(last.pre, last.args.token_id) = last.sender
    /\ last.sender # owner_of(last.pre, last.args.token_id)
    /\ last.err = Unauthorized
    /\ get_approved(nft, last.args.token_id) = last.sender

(* --------------------------------- C7 ---------------------------------- *)

\* C7: set_approval_for_all with operator = caller fails with
\* InvalidSelfReference, for approved true and false alike, and changes
\* nothing; so no entry of operator_approvals has owner = operator.
C7_NoSelfOperator ==
    /\ (NftCall("set_approval_for_all") /\ last.args.operator = last.sender) =>
          (last.err = InvalidSelfReference /\ nft = last.pre)
    /\ \A g \in nft.operator_approvals : g.owner # g.operator

\* a caller tried to grant itself the operator role
C7_Witness ==
    /\ NftCall("set_approval_for_all")
    /\ last.args.operator = last.sender
    /\ last.args.approved
    /\ last.err = InvalidSelfReference

(* --------------------------------- C8 ---------------------------------- *)

\* the product set of the user a wallet resolves to ({} while none is kept)
products_of(state, wallet) ==
    IF /\ wallet \in DOMAIN state.wallet_owner
       /\ state.wallet_owner[wallet] \in DOMAIN state.user_product_list
    THEN state.user_product_list[state.wallet_owner[wallet]]
    ELSE {}

product_of_call ==
    [contract_address |-> last.args.product_address, id |-> last.args.product_id]

\* C8: mint_product(to_wallet, product_contract, product_id) called by the
\* contract owner for a wallet registered by an earlier successful mint
\* succeeds and inserts the product reference into that user's product set.
C8_MintProductForRegisteredWallet ==
    ( /\ DirCall("mint_product")
      /\ last.sender = last.pre.contract_owner
      /\ last.args.to \in DOMAIN last.pre.wallet_owner )
    => /\ last.err = OK
       /\ product_of_call \in products_of(dir, last.args.to)

(* --------------------------------- C9 ---------------------------------- *)

\* C9: transfer_product called by the contract owner with two registered
\* wallets, the source never holding the product, succeeds, inserts the
\* product into the destination's set and leaves the source's set as it was.
C9_MoveProductBetweenRegisteredWallets ==
    ( /\ DirCall("transfer_product")
      /\ last.sender = last.pre.contract_owner
      /\ last.args.from \in DOMAIN last.pre.wallet_owner
      /\ last.args.to \in DOMAIN last.pre.wallet_owner
      /\ last.args.from # last.args.to
      /\ product_of_call \notin products_of(last.pre, last.args.from) )
    => /\ last.err = OK
       /\ product_of_call \in products_of(dir, last.args.to)
       /\ products_of(dir, last.args.from) = products_of(last.pre, last.args.from)

(* --------------------------------- C10 --------------------------------- *)

OwnerGated(contract, op) ==
    \/ contract = "nft" /\ op = "batch_mint"
    \/ contract = "user" /\ op \in {"mint", "mint_product", "transfer_product"}

\* C11: contract_owner is the caller of initialize and never changes;
\* batch_mint of the NFT contract and mint, mint_product, transfer_product of
\* the directory fail with Unauthorized for every caller other than
\* contract_owner, whatever approval or operator grant the caller holds, and
\* are not refused as unauthorized when the caller is contract_owner.
C11_OwnerGate ==
    /\ nft.contract_owner = Deployer
    /\ dir.contract_owner = Deployer
    /\ OwnerGated(last.contract, last.op) =>
          (last.err = Unauthorized <=> last.sender # last.pre.contract_owner)

\* batch_mint was refused to a caller who is the approved address of a token
\* and an operator of the contract owner
C11_Witness ==
    /\ NftCall("batch_mint")
    /\ last.err = Unauthorized
    /\ \E t \in DOMAIN last.pre.owners : get_approved(last.pre, t) = last.sender
    /\ is_approved_for_all(last.pre, last.pre.contract_owner, last.sender)
    /\ nft = last.pre

(* --------------------------------- C12 --------------------------------- *)

\* C12: the directory mint(external_id, wallet) by the contract owner always
\* succeeds, allocates the next id total_count + 1 (1 on a fresh directory),
\* stores the user entry under it and binds the wallet to it; for a wallet
\* registered before, the wallet now resolves to the new id only and the
\* earlier user entry stays in user_list.
C12_DirectoryMint ==
    DirCall("mint") =>
        LET pre == last.pre
            id == pre.total_count + 1
        IN  /\ last.sender = pre.contract_owner => last.err = OK
            /\ last.err = OK =>
                  /\ dir.total_count = id
                  /\ id \notin DOMAIN pre.user_list
                  /\ DOMAIN dir.user_list = DOMAIN pre.user_list \cup {id}
                  /\ dir.user_list[id] =
                        [id |-> last.args.user_id, wallet |-> last.args.wallet]
                  /\ \A u \in DOMAIN pre.user_list : dir.user_list[u] = pre.user_list[u]
                  /\ DOMAIN dir.wallet_owner =
                        DOMAIN pre.wallet_owner \cup {last.args.wallet}
                  /\ dir.wallet_owner[last.args.wallet] = id
                  /\ \A w \in DOMAIN pre.wallet_owner \ {last.args.wallet} :
                        dir.wallet_owner[w] = pre.wallet_owner[w]

\* a wallet that was registered before was registered again
C12_Witness ==
    /\ DirCall("mint")
    /\ last.err = OK
    /\ last.args.wallet \in DOMAIN last.pre.wallet_owner
    /\ dir.wallet_owner[last.args.wallet] # last.pre.wallet_owner[last.args.wallet]
    /\ dir.user_list[last.pre.wallet_owner[last.args.wallet]].wallet = last.args.wallet

(* --------------------------------- C13 --------------------------------- *)

\* C13: set_approval_for_all(op, true) called twice by the same caller
\* leaves the state of one call: the one grant (caller, op) exists and
\* is_approved_for_all(caller, op) holds; set_approval_for_all(op, false) on
\* an absent grant changes nothing, and a revoke removes the grant entirely.
C13_GrantIdempotent ==
    (NftCall("set_approval_for_all") /\ last.args.operator # last.sender) =>
        LET pre == last.pre
            g == [owner |-> last.sender, operator |-> last.args.operator]
            again == set_approval_for_all(NftCtx(last.sender), nft,
                                          last.args.operator, last.args.approved)
        IN  /\ last.err = OK
            /\ again.err = OK /\ again.st = nft
            /\ last.args.approved =>
                  /\ nft = [pre EXCEPT !.operator_approvals = @ \cup {g}]
                  /\ is_approved_for_all(nft, last.sender, last.args.operator)
                  /\ g \in pre.operator_approvals => nft = pre
            /\ ~last.args.approved =>
                  /\ nft = [pre EXCEPT !.operator_approvals = @ \ {g}]
                  /\ ~is_approved_for_all(nft, last.sender, last.args.operator)
                  /\ g \notin pre.operator_approvals => nft = pre

\* a grant that was already held was granted again
C13_Witness ==
    /\ NftCall("set_approval_for_all")
    /\ last.err = OK
    /\ last.args.approved
    /\ is_approved_for_all(last.pre, last.sender, last.args.operator)
    /\ Cardinality(nft.operator_approvals) = 1

(* --------------------------------- C14 --------------------------------- *)

\* C14: every token id with an entry in token_approvals has an entry in
\* owners: no approval exists for a token that was never minted.
C14_ApprovedTokensExist ==
    DOMAIN nft.token_approvals \subseteq DOMAIN nft.owners

\* an approval was asked for a token that was never minted, and refused,
\* while a minted token has an approved address
C14_Witness ==
    /\ NftCall("approve")
    /\ ~exists(last.pre, last.args.token_id)
    /\ last.args.approved # None
    /\ last.err = NotFound
    /\ DOMAIN nft.token_approvals # {}

(* --------------------------------- C15 --------------------------------- *)

\* C15: the existing token ids are exactly 1 .. total_count; total_count
\* never decreases from one state to the next and no token id is removed.
C15_TokenIdsAreOneToCount ==
    /\ DOMAIN nft.owners = 1..nft.total_count
    /\ last.contract = "nft" =>
          /\ nft.total_count >= last.pre.total_count
          /\ DOMAIN last.pre.owners \subseteq DOMAIN nft.owners

\* a second batch was minted after tokens existed
C15_Witness ==
    /\ NftCall("batch_mint")
    /\ last.err = OK
    /\ last.pre.total_count >= 1
    /\ nft.total_count > last.pre.total_count

(* --------------------------------- C16 --------------------------------- *)

\* C16: a minted token has an owner in every later state, and a call after
\* which the owner of a token differs is a successful transfer_from of that
\* token: approve, set_approval_for_all, batch_mint, mint_callback and failed
\* calls leave the owner of every existing token as it was.
C16_OwnerStableUntilTransfer ==
    last.contract = "nft" =>
        \A t \in DOMAIN last.pre.owners :
            /\ exists(nft, t)
            /\ owner_of(nft, t) # owner_of(last.pre, t) =>
                  /\ last.op = "transfer_from"
                  /\ last.err = OK
                  /\ last.args.token_id = t

\* a transfer gave a token a new owner while another token kept its owner
C16_Witness ==
    /\ NftCall("transfer_from")
    /\ last.err = OK
    /\ owner_of(nft, last.args.token_id) # owner_of(last.pre, last.args.token_id)
    /\ \E t \in DOMAIN last.pre.owners : t # last.args.token_id

(* --------------------------------- C17 --------------------------------- *)

\* C17: called by the contract owner, transfer_from of a never-minted token
\* fails with NotFound and transfer_from of a minted token with from other
\* than its owner fails with OwnershipMismatch; both leave the owner and the
\* approval of every token unchanged and emit no notification. approve of a
\* never-minted token fails with NotFound.
C17_TransferErrors ==
    /\ (NftCall("transfer_from") /\ last.sender = last.pre.contract_owner) =>
          LET pre == last.pre
              t == last.args.token_id
          IN  /\ ~exists(pre, t) => last.err = NotFound
              /\ (exists(pre, t) /\ owner_of(pre, t) # last.args.from) =>
                    last.err = OwnershipMismatch
              /\ (exists(pre, t) /\ owner_of(pre, t) = last.args.from) =>
                    last.err = OK
              /\ last.err # OK =>
                    /\ nft.owners = pre.owners
                    /\ nft.token_approvals = pre.token_approvals
                    /\ last.ev = <<>>
    /\ (NftCall("approve") /\ ~exists(last.pre, last.args.token_id)) =>
          /\ last.err = NotFound
          /\ nft = last.pre

\* the contract owner named a wrong owner for a minted token that had an
\* approved address
C17_Witness ==
    /\ NftCall("transfer_from")
    /\ last.sender = last.pre.contract_owner
    /\ exists(last.pre, last.args.token_id)
    /\ last.err = OwnershipMismatch
    /\ get_approved(nft, last.args.token_id) # None

(* --------------------------------- C18 --------------------------------- *)

\* C18: a successful transfer_from emits exactly one notification, to the
\* directory contract address with the transfer-product shortname, with the
\* arguments <<from, to, this contract, token_id, product_id>> in this order,
\* from, to and token_id being the call's and product_id the one of
\* initialize.
C18_TransferNotification ==
    (NftCall("transfer_from") /\ last.err = OK) =>
        /\ Len(last.ev) = 1
        /\ last.ev[1].target = DirAddr
        /\ last.ev[1].shortname = shortname_transfer_product
        /\ last.ev[1].args = << last.args.from, last.args.to, NftAddr,
                                last.args.token_id, ProductLabel >>
        /\ nft.product_id = NftInit.product_id
        /\ nft.user_contract_address = NftInit.user_contract_address

\* a token went from one address to another one and the notification left
C18_Witness ==
    /\ NftCall("transfer_from")
    /\ last.err = OK
    /\ last.args.from # last.args.to
    /\ last.args.token_id = 2
    /\ Len(last.ev) = 1

(* --------------------------------- C20 --------------------------------- *)

\* C20: a transfer of token t from B to C leaves operator_approvals as it
\* was; an operator X of B that is neither C nor an operator of C is then
\* refused by approve on t with Unauthorized and is_approved_or_owner(X, t)
\* is false, while X is still accepted for the tokens that B kept.
C20_OperatorFollowsOwner ==
    (NftCall("transfer_from") /\ last.err = OK) =>
        LET pre == last.pre
            t == last.args.token_id
            B == last.args.from
            C == last.args.to
        IN  /\ nft.operator_approvals = pre.operator_approvals
            /\ \A X \in Address :
                  ( /\ is_approved_for_all(pre, B, X)
                    /\ X # C
                    /\ ~is_approved_for_all(pre, C, X) ) =>
                      /\ is_approved_or_owner(pre, X, t)
                      /\ ~is_approved_or_owner(nft, X, t)
                      /\ \A a \in OptDelegates :
                            approve(NftCtx(X), nft, a, t).err = Unauthorized
                      /\ \A t2 \in DOMAIN nft.owners :
                            owner_of(nft, t2) = B =>
                               /\ is_approved_or_owner(nft, X, t2)
                               /\ \A a \in OptDelegates :
                                     approve(NftCtx(X), nft, a, t2).err = OK

\* B, who has an operator, gave one of two tokens to C, who has none
C20_Witness ==
    /\ NftCall("transfer_from")
    /\ last.err = OK
    /\ last.args.from # last.args.to
    /\ \E X \in Address \ {last.args.to} :
          /\ is_approved_for_all(nft, last.args.from, X)
          /\ ~is_approved_for_all(nft, last.args.to, X)
    /\ \E t2 \in DOMAIN nft.owners : owner_of(nft, t2) = last.args.from

(* --------------------------------- C19 --------------------------------- *)

\* C19: every minted token has a metadata bundle (status, mint time, expiry
\* time) equal to the arguments of the batch_mint that minted it, one entry
\* per token of the batch, and no call of approve, set_approval_for_all,
\* transfer_from, mint_callback or a later batch_mint changes or removes the
\* bundle of a token that exists.
C19_MetadataImmutable ==
    /\ DOMAIN nft.token_uri_details = DOMAIN nft.owners
    /\ last.contract = "nft" =>
          \A t \in DOMAIN last.pre.token_uri_details :
              /\ t \in DOMAIN nft.token_uri_details
              /\ nft.token_uri_details[t] = last.pre.token_uri_details[t]
    /\ (NftCall("batch_mint") /\ last.err = OK) =>
          LET minted == DOMAIN nft.token_uri_details \ DOMAIN last.pre.token_uri_details IN
          /\ Cardinality(minted) = last.args.count
          /\ \A t \in minted :
                nft.token_uri_details[t] =
                    [status |-> last.args.status, mpg_time |-> last.args.mpg_time,
                     exp_time |-> last.args.exp_time]

\* a later batch was minted with another status than the one of a token
\* that existed before
C19_Witness ==
    /\ NftCall("batch_mint")
    /\ last.err = OK
    /\ last.args.count >= 1
    /\ \E t \in DOMAIN last.pre.token_uri_details :
          /\ last.pre.token_uri_details[t].status # last.args.status
          /\ nft.token_uri_details[t].status # last.args.status

(* --------------------------------- C21 --------------------------------- *)

\* C21: the approved address of a token t differs after a call only if the
\* call is a successful approve on t or a successful transfer_from of t:
\* batch_mint, set_approval_for_all (also the revoking of an operator),
\* mint_callback, failed calls and calls on other tokens leave
\* get_approved(t) as it was.
C21_ApprovalChangesOnlyByApproveOrTransfer ==
    last.contract = "nft" =>
        \A t \in TokenIds :
            get_approved(nft, t) # get_approved(last.pre, t) =>
                /\ last.op \in {"approve", "transfer_from"}
                /\ last.err = OK
                /\ last.args.token_id = t

\* an owner revoked its operator while one of its tokens had an approved
\* address, and the approved address stayed
C21_Witness ==
    /\ NftCall("set_approval_for_all")
    /\ last.err = OK
    /\ ~last.args.approved
    /\ is_approved_for_all(last.pre, last.sender, last.args.operator)
    /\ \E t \in DOMAIN nft.owners :
          /\ owner_of(nft, t) = last.sender
          /\ get_approved(last.pre, t) = last.args.operator
          /\ get_approved(nft, t) = last.args.operator

(* --------------------------------- C22 --------------------------------- *)

\* C22: a successful approve changes token_approvals at its token and nothing
\* else; a successful set_approval_for_all changes the presence of the pair
\* (caller, operator) in operator_approvals and nothing else; a successful
\* transfer_from changes owners and token_approvals at its token and nothing
\* else. None of them changes total_count, the metadata, contract_owner or
\* the owner or approved address of another token.
C22_Frame ==
    LET pre == last.pre
        others(t) == TokenIds \ {t}
        same_at(S) == \A t2 \in S :
                         /\ exists(nft, t2) <=> exists(pre, t2)
                         /\ exists(pre, t2) => owner_of(nft, t2) = owner_of(pre, t2)
                         /\ get_approved(nft, t2) = get_approved(pre, t2)
    IN  /\ (NftCall("approve") /\ last.err = OK) =>
              /\ nft = [pre EXCEPT !.token_approvals = nft.token_approvals]
              /\ same_at(others(last.args.token_id))
        /\ (NftCall("set_approval_for_all") /\ last.err = OK) =>
              LET g == [owner |-> last.sender, operator |-> last.args.operator] IN
              /\ nft = [pre EXCEPT !.operator_approvals = nft.operator_approvals]
              /\ nft.operator_approvals \ {g} = pre.operator_approvals \ {g}
              /\ same_at(TokenIds)
        /\ (NftCall("transfer_from") /\ last.err = OK) =>
              /\ nft = [pre EXCEPT !.owners = nft.owners,
                                   !.token_approvals = nft.token_approvals]
              /\ DOMAIN nft.owners = DOMAIN pre.owners
              /\ same_at(others(last.args.token_id))

\* an approve succeeded on one token while another token had an approved
\* address and an operator grant existed
C22_Witness ==
    /\ NftCall("approve")
    /\ last.err = OK
    /\ last.args.approved # None
    /\ nft.operator_approvals # {}
    /\ \E t2 \in DOMAIN nft.owners :
          /\ t2 # last.args.token_id
          /\ get_approved(nft, t2) # None

(* --------------------------------- C23 --------------------------------- *)

\* C23: in every reachable state of the directory the keys of user_list are
\* exactly 1 .. total_count, every value of wallet_owner is a key of
\* user_list, and for every wallet w of wallet_owner the entry
\* user_list[wallet_owner[w]] has the wallet w, also after w was registered
\* several times.
C23_DirectoryConsistent ==
    /\ DOMAIN dir.user_list = 1..dir.total_count
    /\ \A w \in DOMAIN dir.wallet_owner :
          /\ dir.wallet_owner[w] \in DOMAIN dir.user_list
          /\ dir.user_list[dir.wallet_owner[w]].wallet = w

\* one wallet is registered under two external ids and bound to the later
C23_Witness ==
    /\ dir.total_count = 2
    /\ dir.user_list[1].wallet = dir.user_list[2].wallet
    /\ dir.user_list[1].id # dir.user_list[2].id
    /\ dir.wallet_owner[dir.user_list[2].wallet] = 2

(* --------------------------------- C24 --------------------------------- *)

\* the invocation just handled is a delivered notification of the NFT contract
Delivered == last.contract = "user" /\ last.sender = NftAddr

\* C24: with the two contracts together and every notification of the NFT
\* contract delivered to the directory with the NFT contract as sender: the
\* NFT contract is not the contract owner of the directory, so the directory
\* rejects the delivered mint_product or transfer_product and stays as it
\* was; the rejection undoes nothing at the NFT contract, whose tokens of
\* the notification are still in its ledger, while no product set of the
\* directory holds them.
C24_RejectedDeliveryKeepsLedger ==
    /\ NftAddr # dir.contract_owner
    /\ Delivered =>
          LET a == last.args
              tokens == IF last.op = "transfer_product" THEN {a[4]}
                        ELSE (a[3] + 1)..(a[3] + a[4])
          IN  /\ last.err = Unauthorized
              /\ dir = last.pre
              /\ last.ev = <<>>
              /\ tokens # {}
              /\ \A t \in tokens :
                    /\ exists(nft, t)
                    /\ \A w \in Address :
                          [contract_address |-> NftAddr, id |-> t]
                              \notin products_of(dir, w)

\* the notification of a transfer to a registered wallet was delivered and
\* rejected: the wallet owns the token at the NFT contract and has no product
\* at the directory
C24_Witness ==
    /\ Delivered
    /\ last.op = "transfer_product"
    /\ last.err = Unauthorized
    /\ last.args[1] # last.args[2]
    /\ owner_of(nft, last.args[4]) = last.args[2]
    /\ last.args[2] \in DOMAIN dir.wallet_owner
    /\ products_of(dir, last.args[2]) = {}

====
